---- MODULE Spec2Model ----
(***************************************************************************)
(* Model of the SenseCAP Watcher local server: the voice pipeline          *)
(* (AudioStreamHandler), the task-flow compiler (processTaskMode), the      *)
(* task_flows table (SaveTaskFlow, GetTaskFlowsByDevice, DeleteTaskFlow)    *)
(* and the task-detail endpoint (TaskDetailHandler).                        *)
(*                                                                         *)
(* Every HTTP request runs on its own goroutine; the only shared state is   *)
(* the SQLite table.  Each upstream call and each SQL statement is one      *)
(* step, so steps of different requests interleave freely.                  *)
(*                                                                         *)
(* Text is a sequence of strings, one per character wherever the code      *)
(* looks at characters.                                                    *)
(***************************************************************************)
EXTENDS Integers, Sequences, FiniteSets, TLC

\* Number of voice requests a behaviour holds (each goroutine runs once).
MaxReqs == 2

\* Longest classifier reply enumerated for the mode parser.
MaxLen == 3

Reqs == 1..MaxReqs

\* API-OBITER-DEVICE-EUI values the requests carry.
Devices == {"d1", "d2"}

VARIABLES
    req,        \* req[r]: the locals of voice request r and its position
    store,      \* rows of table task_flows
    nextId,     \* AUTOINCREMENT counter of task_flows.id
    clock,      \* the last instant time.Now() returned
    lastFetch,  \* the task-detail response being returned, if any
    down,       \* the upstream call or SQL statement that can fail
    solo,       \* the run holds one voice request, with the wider replies
    gate,       \* the HTTP request inside the middleware chain
    vis,        \* the locals of the vision request and its position
    ntf,        \* ntf[n]: the locals of notification request n
    events,     \* rows of table notification_events, in insertion order
    arg,        \* input of the pure function under test
    res         \* its result

vars ==
    <<req, store, nextId, clock, lastFetch, down, solo, gate, vis, ntf,
      events, arg, res>>

\* what no request step changes
fixed == <<down, solo, gate, vis, ntf, events, arg, res>>

----------------------------------------------------------------------------
(* Text helpers (package strings)                                          *)

RECURSIVE TrimLeftSet(_, _)
TrimLeftSet(s, cut) ==
    IF s # <<>> /\ Head(s) \in cut THEN TrimLeftSet(Tail(s), cut) ELSE s

RECURSIVE TrimRightSet(_, _)
TrimRightSet(s, cut) ==
    IF s # <<>> /\ s[Len(s)] \in cut
    THEN TrimRightSet(SubSeq(s, 1, Len(s) - 1), cut)
    ELSE s

\* strings.TrimSpace
TrimSpace(s) == TrimRightSet(TrimLeftSet(s, {" "}), {" "})

\* strings.Trim(s, cutset)
Trim(s, cut) == TrimRightSet(TrimLeftSet(s, cut), cut)

\* strings.Contains(s, c) for a one-character c
Contains(s, c) == \E i \in 1..Len(s) : s[i] = c

\* strings.Contains(s, substr) for any substr
ContainsStr(s, substr) ==
    \E i \in 1..(Len(s) - Len(substr) + 1) :
        SubSeq(s, i, i + Len(substr) - 1) = substr

\* index of the first occurrence of c in s, 0 when absent
IndexOf(s, c) ==
    IF Contains(s, c) THEN CHOOSE i \in 1..Len(s) :
                              s[i] = c /\ \A j \in 1..(i - 1) : s[j] # c
    ELSE 0

\* strings.ToLower on the alphabet of the model
UpperCase ==
    <<"A", "B", "C", "D", "E", "F", "G", "H", "I", "J", "K", "L", "M",
      "N", "O", "P", "Q", "R", "S", "T", "U", "V", "W", "X", "Y", "Z">>

LowerCase ==
    <<"a", "b", "c", "d", "e", "f", "g", "h", "i", "j", "k", "l", "m",
      "n", "o", "p", "q", "r", "s", "t", "u", "v", "w", "x", "y", "z">>

LowerChar(c) ==
    IF \E i \in 1..26 : UpperCase[i] = c
    THEN LowerCase[CHOOSE i \in 1..26 : UpperCase[i] = c]
    ELSE c

ToLower(s) == [i \in 1..Len(s) |-> LowerChar(s[i])]

----------------------------------------------------------------------------
(* Pure functions of the voice pipeline                                    *)

\* cleanLLMResponse: trim, strip surrounding quotes, strip trailing
\* punctuation, trim again.
cleanLLMResponse(response) ==
    LET r1 == TrimSpace(response)
        r2 == Trim(r1, {"\"", "'"})
        r3 == TrimRightSet(r2, {".", ",", "!", "?", ";", ":"})
    IN  TrimSpace(r3)

\* determineMode, the parse of the classifier's reply text.
ParseModeFirstDigit(response) ==
    LET modeStr == TrimSpace(response)
        i1 == IndexOf(modeStr, "1")
        i2 == IndexOf(modeStr, "2")
    IN  IF i1 > 0 /\ (i2 = 0 \/ i1 < i2) THEN 1
        ELSE IF i2 > 0 THEN 2
        ELSE 0

ParseMode(response) ==
    LET modeStr == TrimSpace(response)
    IN  IF Contains(modeStr, "1") THEN 1
        ELSE IF Contains(modeStr, "2") THEN 2
        ELSE 0

\* processTaskMode, the parse of the model selector's reply.
ParseModelTypeFirstDigit(modelTypeStr) ==
    LET at(c) == IndexOf(modelTypeStr, c)
        first(c) == at(c) > 0 /\ \A o \in {"2", "3", "0"} :
                                     at(o) = 0 \/ at(c) <= at(o)
    IN  IF first("2") THEN 2
        ELSE IF first("3") THEN 3
        ELSE IF first("0") THEN 0
        ELSE 1

ParseModelType(modelTypeStr) ==
    IF Contains(modelTypeStr, "2") THEN 2
    ELSE IF Contains(modelTypeStr, "3") THEN 3
    ELSE IF Contains(modelTypeStr, "0") THEN 0
    ELSE 1

\* The confirmation sentence processTaskMode returns.
Confirmation(headline, trigger) ==
    <<"I've created a monitoring task: ">> \o headline
        \o <<". I'll watch for ">> \o trigger \o <<".">>

----------------------------------------------------------------------------
(* The duration of the audio: int((float64(audioDataSize) / 32000.0) * 1000) *)
(*                                                                         *)
(* Both operations are float64 operations, each rounded to 53 significant  *)
(* bits, ties to even.  With n = audioDataSize and 32000 = 125 * 2^8, the   *)
(* quotient is m * 2^-(e+8) where e = 52 - t, 125 * 2^t <= n < 125 * 2^(t+1) *)
(* and m is n * 2^e / 125 rounded to an integer, so that 125 * m =          *)
(* n * 2^e - q with q the signed remainder, -62 <= q <= 62.  The exact      *)
(* product by 1000 = 125 * 2^3 is (n * 2^e - q) / 2^(e+5); its numerator    *)
(* has 59 or 60 bits and is rounded to a multiple of 2^6 or of 2^7.  The    *)
(* numbers n * 2^e do not fit 32-bit integers, so the remainder is          *)
(* computed modulo 125 and the result is kept as n / 32 with a mark for     *)
(* "a little below".                                                        *)

WavHeader == 44

BytesPerSec == 32000

\* 32000 = OddPart * 2^8 and 1000 = OddPart * 2^3
OddPart == 125

RECURSIVE PowMod(_, _, _)
PowMod(b, e, m) == IF e = 0 THEN 1 % m ELSE (b * PowMod(b, e - 1, m)) % m

\* n scaled by 2^t, for t of either sign, compared with x: -1, 0 or 1
CmpScaled(n, t, x) ==
    LET l == IF t < 0 THEN n * 2^(0 - t) ELSE n
        h == IF t < 0 THEN x ELSE x * 2^t
    IN  IF l < h THEN -1 ELSE IF l = h THEN 0 ELSE 1

\* the t with OddPart * 2^t <= n < OddPart * 2^(t+1), for 0 < n < 2^24
Binade(n) ==
    CHOOSE t \in (IF n < OddPart THEN -8..-1 ELSE 0..17) :
        /\ CmpScaled(n, t, OddPart) >= 0
        /\ CmpScaled(n, t, 2 * OddPart) < 0

\* float64(n) / 32000.0: the signed remainder q of the rounded quotient
QuotientRemainder(n) ==
    LET e == 52 - Binade(n)
        r == ((n % OddPart) * PowMod(2, e, OddPart)) % OddPart
    IN  IF 2 * r < OddPart THEN r ELSE r - OddPart

\* (float64(n) / 32000.0) * 1000 is below n / 32 (by less than 2^-32)
ProductBelow(n) ==
    LET q == QuotientRemainder(n)
        c == CmpScaled(n, Binade(n), 128)
        sixBits == c < 0 \/ (c = 0 /\ q > 0)
    IN  sixBits /\ q > 32

\* audioDurationMs: the conversion to int truncates toward zero
AudioDurationMs(size) ==
    LET audioDataSize == IF size - WavHeader < 0 THEN 0 ELSE size - WavHeader
        whole == audioDataSize \div 32
    IN  IF audioDataSize = 0 THEN 0
        ELSE IF ProductBelow(audioDataSize) /\ audioDataSize % 32 = 0
             THEN whole - 1
        ELSE whole

----------------------------------------------------------------------------
(* The JSON header: json.Marshal of the response map, keys in sorted order  *)

JsonSkeleton ==
    "{\"code\":200,\"data\":{\"duration\":,\"mode\":,\"screen_text\":\"\",\"stt_result\":\"\"}}"

RECURSIVE Digits(_)
Digits(n) == IF n < 10 THEN 1 ELSE 1 + Digits(n \div 10)

\* bytes json.Marshal writes for one piece of text: quote and backslash
\* are escaped with a backslash, newline as \n, <, > and & as \u00xx
JsonTextLen(c) ==
    IF c \in {"\"", "\\", "\n"} THEN 2
    ELSE IF c \in {"<", ">", "&"} THEN 6
    ELSE Len(c)

RECURSIVE JsonStringLen(_)
JsonStringLen(s) ==
    IF s = <<>> THEN 0 ELSE JsonTextLen(Head(s)) + JsonStringLen(Tail(s))

\* len(jsonBytes)
JsonLen(mode, duration, stt, screen) ==
    Len(JsonSkeleton) + Digits(mode) + Digits(duration)
        + JsonStringLen(stt) + JsonStringLen(screen)

----------------------------------------------------------------------------
(* Failures.  A run has at most one kind of outage: down names the          *)
(* upstream call or SQL statement that can fail in it (each time it is      *)
(* made it fails or succeeds); every other call succeeds.                   *)

Outages ==
    {"none", "body", "stt", "classifier", "chat", "trigger", "match",
     "model", "headline", "read", "delete", "insert", "tts", "fetch"}

----------------------------------------------------------------------------
(* Replies of the upstream services (STT, LLM, TTS)                        *)

\* /transcribe: the text of a decoded reply
Transcripts == {<<"n", "o", "t", "i", "f", "y">>}

\* /api/generate for the mode classifier: the response field
ClassifierReplies == {<<"1">>, <<"h", "i">>, <<"2">>}

\* how the classifier call can fail: http.Post error, undecodable body
ClassifierFailures == {"post_err", "decode_err"}

\* what the classifier call can come back with
ClassifierOutcomes ==
    {[err |-> e, response |-> <<>>] : e \in ClassifierFailures}
        \cup {[err |-> "none", response |-> t] : t \in ClassifierReplies}

ChatReplies == {<<"H", "i", ".">>}
TriggerReplies == {<<"c", "a", "t", ".">>}
MatcherReplies == {<<"C", "a", "t">>, <<" ", ".">>, <<"A", "\"", "\\">>}
SelectorReplies == {<<"2", ".">>}
HeadlineReplies == {<<"\"", "W", "a", "t", "c", "h", "\"">>}

\* /synthesize: the number of WAV bytes returned
TtsReplies == {32044, 43}

\* A run with racing requests draws each reply from the usual ones only;
\* a run with a single request draws from all of them.
UsualReplies(all, usual) == IF solo THEN all ELSE all \cap usual

ClassifierOffered ==
    {o \in ClassifierOutcomes :
        o.err = "none" => o.response \in UsualReplies(ClassifierReplies,
                                                      {<<"1">>, <<"h", "i">>})}

MatcherOffered == UsualReplies(MatcherReplies, {<<"C", "a", "t">>})

TtsOffered == UsualReplies(TtsReplies, {32044})

----------------------------------------------------------------------------
(* The task_flows table                                                    *)

\* rows WHERE device_eui = ?
RowsOf(deviceEUI) == {f \in store : f.device_eui = deviceEUI}

Perms(S) ==
    {s \in [1..Cardinality(S) -> S] :
        \A i, j \in 1..Cardinality(S) : i # j => s[i] # s[j]}

\* GetTaskFlowsByDevice: the result lists a successful query can return,
\* ORDER BY created_at DESC (rows of one instant in any order).
ByCreatedAsc(deviceEUI) ==
    {s \in Perms(RowsOf(deviceEUI)) :
        \A i \in 1..(Len(s) - 1) : s[i].created_at <= s[i + 1].created_at}

GetTaskFlowsOfAllDevices(deviceEUI) ==
    {s \in Perms(store) :
        \A i \in 1..(Len(s) - 1) : s[i].created_at >= s[i + 1].created_at}

GetTaskFlowsByDevice(deviceEUI) ==
    {s \in Perms(RowsOf(deviceEUI)) :
        \A i \in 1..(Len(s) - 1) : s[i].created_at >= s[i + 1].created_at}

\* DeleteTaskFlow: DELETE FROM task_flows WHERE id = ?
DeletedRows(id) == {f \in store : f.id = id}

KeepRows(id) == store

AfterDelete(id) == store \ DeletedRows(id)

\* json.Marshal of one character inside a string: the quote and the
\* backslash are escaped
EscapeCharNone(c) == <<c>>

EscapeChar(c) ==
    IF c \in {"\"", "\\"} THEN <<"\\", c>> ELSE <<c>>

RECURSIVE jsonMarshalString(_)
jsonMarshalString(s) ==
    IF s = <<>> THEN <<>>
    ELSE EscapeChar(Head(s)) \o jsonMarshalString(Tail(s))

\* json.Marshal of a []string: the text stored in the TEXT column
RECURSIVE jsonMarshalRest(_)
jsonMarshalRest(list) ==
    IF list = <<>> THEN <<>>
    ELSE <<",", "\"">> \o jsonMarshalString(Head(list)) \o <<"\"">>
            \o jsonMarshalRest(Tail(list))

jsonMarshalList(list) ==
    IF list = <<>> THEN <<"[", "]">>
    ELSE <<"[", "\"">> \o jsonMarshalString(Head(list)) \o <<"\"">>
            \o jsonMarshalRest(Tail(list)) \o <<"]">>

JsonSyntaxError == [ok |-> FALSE, value |-> <<>>, next |-> 0]

\* the string literal whose opening quote is before position i
RECURSIVE jsonScanString(_, _, _)
jsonScanString(text, i, acc) ==
    IF i > Len(text) THEN JsonSyntaxError
    ELSE IF text[i] = "\"" THEN [ok |-> TRUE, value |-> acc, next |-> i + 1]
    ELSE IF text[i] = "\\"
         THEN IF i < Len(text) /\ text[i + 1] \in {"\"", "\\"}
              THEN jsonScanString(text, i + 2, Append(acc, text[i + 1]))
              ELSE JsonSyntaxError
    ELSE jsonScanString(text, i + 1, Append(acc, text[i]))

\* the elements of the array from position i on
RECURSIVE jsonScanElements(_, _, _)
jsonScanElements(text, i, acc) ==
    IF i > Len(text) \/ text[i] # "\"" THEN JsonSyntaxError
    ELSE LET str == jsonScanString(text, i + 1, <<>>)
         IN  IF ~str.ok \/ str.next > Len(text) THEN JsonSyntaxError
             ELSE IF text[str.next] = "]"
                  THEN IF str.next = Len(text)
                       THEN [ok |-> TRUE, value |-> Append(acc, str.value),
                             next |-> str.next + 1]
                       ELSE JsonSyntaxError
             ELSE IF text[str.next] = ","
                  THEN jsonScanElements(text, str.next + 1,
                                        Append(acc, str.value))
             ELSE JsonSyntaxError

\* json.Unmarshal of the column into a []string
jsonUnmarshalList(text) ==
    IF text = <<"[", "]">> THEN [ok |-> TRUE, value |-> <<>>, next |-> 3]
    ELSE IF Len(text) < 2 \/ text[1] # "[" THEN JsonSyntaxError
    ELSE jsonScanElements(text, 2, <<>>)

\* GetTaskFlowsByDevice: the list a scan of the column yields; a text
\* that does not parse gives the empty list
ScannedList(text) ==
    IF jsonUnmarshalList(text).ok THEN jsonUnmarshalList(text).value
    ELSE <<>>

\* SaveTaskFlow: the row INSERT adds; id is the AUTOINCREMENT value,
\* created_at the instant read before the statement ran.
NewRow(tf, id, now) ==
    [id |-> id,
     device_eui |-> tf.DeviceEUI,
     name |-> tf.Name,
     headline |-> tf.Headline,
     trigger_condition |-> tf.TriggerCondition,
     target_objects |-> ScannedList(jsonMarshalList(tf.TargetObjects)),
     actions |-> ScannedList(jsonMarshalList(tf.Actions)),
     model_type |-> tf.ModelType,
     created_at |-> now,
     updated_at |-> now]

----------------------------------------------------------------------------
(* Reification of a stored task flow (convertToNodeREDFormat)              *)

\* time.Time.UnixMilli; the instants of the model are whole milliseconds
UnixMilli(t) == t

EmptyTl == [empty |-> TRUE]

aiCameraNode(task) ==
    [id |-> 1, type |-> "ai camera", index |-> 0,
     params |-> [modes |-> 0,
                 model_type |-> task.model_type,
                 conditions |-> << [class |-> task.target_objects[1],
                                    mode |-> 1, type |-> 2, num |-> 0] >>,
                 conditions_combo |-> 0,
                 silent_period |-> [silence_duration |-> 5],
                 output_type |-> 1,
                 shutter |-> 0],
     wires |-> << <<2>> >>]

imageAnalyzerNode(task) ==
    [id |-> 2, type |-> "image analyzer", index |-> 1,
     params |-> [body |-> [prompt |-> task.trigger_condition,
                           type |-> 1,
                           audio_txt |-> <<>>]],
     wires |-> << <<3, 4>> >>]

localAlarmNode ==
    [id |-> 3, type |-> "local alarm", index |-> 2,
     params |-> [sound |-> 1, rgb |-> 1, img |-> 0, text |-> 0,
                 duration |-> 5],
     wires |-> <<>>]

sensecraftAlarmNodeWiredBack ==
    [id |-> 4, type |-> "sensecraft alarm", index |-> 3,
     params |-> [silence_duration |-> 30],
     wires |-> << <<1>> >>]

sensecraftAlarmNode ==
    [id |-> 4, type |-> "sensecraft alarm", index |-> 3,
     params |-> [silence_duration |-> 30],
     wires |-> <<>>]

convertToNodeREDFormat(task) ==
    [type |-> 0,
     tlid |-> task.id,
     ctd |-> UnixMilli(task.created_at),
     tn |-> task.headline,
     task_flow |-> << aiCameraNode(task), imageAnalyzerNode(task),
                      localAlarmNode, sensecraftAlarmNode >>]

----------------------------------------------------------------------------
(* Vision and notification requests before their handlers run             *)

MaxNtfs == 2

Ntfs == 1..MaxNtfs

\* body is what io.ReadAll and json.Unmarshal make of the request body;
\* img, prompt, audioTxt and type are the fields of the decoded request
\* (a missing field is the zero value); audio is audioBase64, a pointer:
\* empty for nil, else the number of WAV bytes encoded.
IdleVis ==
    [pc |-> "idle", body |-> "json", img |-> "", prompt |-> "",
     audioTxt |-> <<>>, type |-> 0, analysis |-> <<>>, state |-> 0,
     audio |-> <<>>, status |-> 0, trace |-> <<>>,
     response |-> [code |-> 0, state |-> 0, type |-> 0, audio |-> <<>>]]

\* body is what io.ReadAll and json.Unmarshal make of the request body;
\* text and timestamp are pointers (empty for nil); before and after are
\* history: the number of stored events around the insert of the request.
IdleNtf ==
    [pc |-> "idle", body |-> "json", dev |-> "none", requestId |-> 0,
     text |-> <<>>, timestamp |-> <<>>, status |-> 0, code |-> 0,
     trace |-> <<>>, before |-> 0, after |-> 0]

----------------------------------------------------------------------------
(* Voice requests                                                          *)

\* Locals of AudioStreamHandler and processTaskMode before the handler runs.
\* pred and trace are history: the requests that had finished when this one
\* began, and the upstream calls and SQL statements it has issued so far.
IdleReq ==
    [pc |-> "idle", dev |-> "none", pred |-> {}, trace |-> <<>>,
     status |-> 0, transcription |-> <<>>, classifier |-> [err |-> "unset", response |-> <<>>],
     matcher |-> [err |-> "unset", response |-> <<>>],
     mode |-> 0,
     ollamaResponse |-> <<>>, trigger |-> <<>>, targetObject |-> <<>>,
     modelType |-> 1, headline |-> <<>>, oldTasks |-> <<>>, now |-> 0,
     id |-> 0, audioData |-> 0, written |-> "none"]

Finished(r) == req[r].pc = "done"

\* No task-detail response is on its way out.
Quiet == lastFetch.dev = "none"

\* Request r stands at position pc of its handler.
At(r, pc) == Quiet /\ req[r].pc = pc

\* The call or statement named what can fail in this run.
Down(what) == down = what

Log(r, ev) == Append(req[r].trace, ev)

\* http.Error(w, msg, code): the handler returns with an error status.
Fail(r, ev, code) ==
    req' = [req EXCEPT ![r] = [@ EXCEPT !.pc = "done", !.status = code,
                                        !.trace = Log(r, ev),
                                        !.oldTasks = <<>>]]

\* Where the handler goes once the body is read (step 1 is the STT call).
AfterBodySkipStt == "mode"

AfterBody == "stt"

\* The handler is entered: headers and body are read.
Begin(r, d) ==
    /\ At(r, "idle")
    /\ solo => r = 1
    /\ \A q \in Reqs : q < r => req[q].pc # "idle"
    /\ (\A q \in Reqs : req[q].pc = "idle") => d = "d1"
    /\ \/ req' = [req EXCEPT ![r] = [@ EXCEPT !.pc = AfterBody, !.dev = d,
                                     !.pred = {q \in Reqs : Finished(q)}]]
       \/ /\ Down("body")
          /\ req' = [req EXCEPT ![r] = [@ EXCEPT !.pc = "done", !.dev = d,
                                     !.pred = {q \in Reqs : Finished(q)},
                                        !.status = 400,
                                        !.trace = Log(r, "body_err")]]
    /\ UNCHANGED <<store, nextId, clock, lastFetch, fixed>>

\* Step 1: transcribeAudio failed.
TranscribeFailedContinue(r) ==
    req' = [req EXCEPT ![r] = [@ EXCEPT !.pc = "mode",
                                        !.trace = Log(r, "stt_err")]]

TranscribeFailed(r) == Fail(r, "stt_err", 500)

\* Step 1: transcribeAudio.
Transcribe(r) ==
    /\ At(r, "stt")
    /\ \/ \E t \in Transcripts :
            req' = [req EXCEPT ![r] = [@ EXCEPT !.pc = "mode",
                                       !.transcription = t,
                                       !.trace = Log(r, "stt")]]
       \/ Down("stt") /\ TranscribeFailed(r)
    /\ UNCHANGED <<store, nextId, clock, lastFetch, fixed>>

\* determineMode: every failure of the call gives mode 0.
determineModeFailAsTask(outcome) ==
    IF outcome.err # "none" THEN 1 ELSE ParseMode(outcome.response)

determineMode(outcome) ==
    IF outcome.err # "none" THEN 0 ELSE ParseMode(outcome.response)

\* Step 2: the mode is determined, step 3 branches on it.
DetermineMode(r) ==
    /\ At(r, "mode")
    /\ \E outcome \in ClassifierOffered :
         /\ outcome.err # "none" => Down("classifier")
         /\ req' = [req EXCEPT ![r] = [@ EXCEPT
                    !.classifier = outcome,
                    !.mode = determineMode(outcome),
                    !.pc = IF determineMode(outcome) = 0 THEN "chat"
                                                       ELSE "trigger",
                    !.trace = Log(r, "mode")]]
    /\ UNCHANGED <<store, nextId, clock, lastFetch, fixed>>

ProcessChatModeThenTask(r) ==
    /\ At(r, "chat")
    /\ \/ \E reply \in ChatReplies :
            req' = [req EXCEPT ![r] = [@ EXCEPT !.pc = "trigger",
                                       !.ollamaResponse = reply,
                                       !.trace = Log(r, "chat")]]
       \/ Down("chat") /\ Fail(r, "chat_err", 500)
    /\ UNCHANGED <<store, nextId, clock, lastFetch, fixed>>

\* Step 3, chat mode: processChatMode.
ProcessChatMode(r) ==
    /\ At(r, "chat")
    /\ \/ \E reply \in ChatReplies :
            req' = [req EXCEPT ![r] = [@ EXCEPT !.pc = "tts",
                                       !.ollamaResponse = reply,
                                       !.trace = Log(r, "chat")]]
       \/ Down("chat") /\ Fail(r, "chat_err", 500)
    /\ UNCHANGED <<store, nextId, clock, lastFetch, fixed>>

----------------------------------------------------------------------------
(* Step 3, task mode: processTaskMode                                      *)

\* The trigger extractor failed: processTaskMode returns the error and
\* AudioStreamHandler answers 500.
TriggerFailedDefault(r) ==
    req' = [req EXCEPT ![r] = [@ EXCEPT !.pc = "match",
                                        !.trigger = <<>>,
                                        !.trace = Log(r, "trigger_err")]]

TriggerFailed(r) == Fail(r, "trigger_err", 500)

ExtractTrigger(r) ==
    /\ At(r, "trigger")
    /\ \/ \E reply \in TriggerReplies :
            req' = [req EXCEPT ![r] = [@ EXCEPT
                       !.pc = "match",
                       !.trigger = cleanLLMResponse(reply),
                       !.trace = Log(r, "trigger")]]
       \/ Down("trigger") /\ TriggerFailed(r)
    /\ UNCHANGED <<store, nextId, clock, lastFetch, fixed>>

\* targetObject after the matcher call: cleaned, lower-cased, trimmed
MatchedObject(reply) == TrimSpace(ToLower(cleanLLMResponse(reply)))

\* The word matcher failed: the target defaults to person.
MatchFailed(r) ==
    req' = [req EXCEPT ![r] = [@ EXCEPT
               !.pc = "model",
               !.matcher = [err |-> "post_err", response |-> <<>>],
               !.targetObject = MatchedObject(<<"p", "e", "r", "s", "o", "n">>),
               !.trace = Log(r, "match_err")]]

MatchObject(r) ==
    /\ At(r, "match")
    /\ \/ \E reply \in MatcherOffered :
            req' = [req EXCEPT ![r] = [@ EXCEPT
                       !.pc = "model",
                       !.matcher = [err |-> "none", response |-> reply],
                       !.targetObject = MatchedObject(reply),
                       !.trace = Log(r, "match")]]
       \/ Down("match") /\ MatchFailed(r)
    /\ UNCHANGED <<store, nextId, clock, lastFetch, fixed>>

\* how a callOllamaSimple call can fail: the post, a status other than
\* 200, an undecodable body
OllamaFailures == {"post_err", "status_err", "decode_err"}

\* modelType from what the model-selector call came back with: on a
\* failure modelTypeStr is "1"; it is cleaned and then parsed.
ModelTypeOf(outcome) ==
    LET modelTypeStr == IF outcome.err # "none" THEN <<"1">>
                        ELSE outcome.response
    IN  ParseModelType(cleanLLMResponse(modelTypeStr))

\* The model selector failed: modelTypeStr defaults to "1".
SelectFailed(r) ==
    req' = [req EXCEPT ![r] = [@ EXCEPT
               !.pc = "headline",
               !.modelType = ModelTypeOf([err |-> "post_err",
                                          response |-> <<>>]),
               !.trace = Log(r, "model_err")]]

SelectModel(r) ==
    /\ At(r, "model")
    /\ \/ \E reply \in SelectorReplies :
            req' = [req EXCEPT ![r] = [@ EXCEPT
                       !.pc = "headline",
                       !.modelType = ModelTypeOf([err |-> "none",
                                                  response |-> reply]),
                       !.trace = Log(r, "model")]]
       \/ Down("model") /\ SelectFailed(r)
    /\ UNCHANGED <<store, nextId, clock, lastFetch, fixed>>

\* The headline call failed: the headline falls back to "Task created".
HeadlineFailed(r) ==
    req' = [req EXCEPT ![r] = [@ EXCEPT
               !.pc = "read",
               !.headline = TrimSpace(cleanLLMResponse(<<"Task", " ", "created">>)),
               !.trace = Log(r, "headline_err")]]

GenerateHeadline(r) ==
    /\ At(r, "headline")
    /\ \/ \E reply \in HeadlineReplies :
            req' = [req EXCEPT ![r] = [@ EXCEPT
                       !.pc = "read",
                       !.headline = TrimSpace(cleanLLMResponse(reply)),
                       !.trace = Log(r, "headline")]]
       \/ Down("headline") /\ HeadlineFailed(r)
    /\ UNCHANGED <<store, nextId, clock, lastFetch, fixed>>

\* oldTasks, err := database.GetTaskFlowsByDevice(deviceEUI); the ids of
\* the rows are what the delete loop uses.  On an error nothing is deleted.
IdsOf(rows) == [i \in 1..Len(rows) |-> rows[i].id]

ReadOldTasks(r) ==
    /\ At(r, "read")
    /\ \/ \E rows \in GetTaskFlowsByDevice(req[r].dev) :
            req' = [req EXCEPT ![r] = [@ EXCEPT
                       !.pc = IF Len(rows) > 0 THEN "delete" ELSE "now",
                       !.oldTasks = IdsOf(rows),
                       !.trace = Log(r, "read")]]
       \/ /\ Down("read")
          /\ req' = [req EXCEPT ![r] = [@ EXCEPT !.pc = "now",
                                        !.trace = Log(r, "read_err")]]
    /\ UNCHANGED <<store, nextId, clock, lastFetch, fixed>>

\* One turn of the delete loop: DeleteTaskFlow(oldTask.ID).  A failure (the
\* statement fails, or no row has the id any more) is logged and the loop
\* goes on.
DeleteOldTask(r) ==
    /\ At(r, "delete")
    /\ LET id == Head(req[r].oldTasks)
           rest == Tail(req[r].oldTasks)
           next == IF rest = <<>> THEN "now" ELSE "delete"
       IN  \/ /\ DeletedRows(id) # {}
              /\ store' = AfterDelete(id)
              /\ req' = [req EXCEPT ![r] = [@ EXCEPT !.pc = next,
                                            !.oldTasks = rest,
                                            !.trace = Log(r, "delete")]]
           \/ /\ DeletedRows(id) = {}
              /\ store' = store
              /\ req' = [req EXCEPT ![r] = [@ EXCEPT !.pc = next,
                                            !.oldTasks = rest,
                                            !.trace = Log(r, "delete_notfound")]]
           \/ /\ Down("delete")
              /\ store' = store
              /\ req' = [req EXCEPT ![r] = [@ EXCEPT !.pc = next,
                                            !.oldTasks = rest,
                                            !.trace = Log(r, "delete_err")]]
    /\ UNCHANGED <<nextId, clock, lastFetch, fixed>>

\* taskFlow := &database.TaskFlow{...}
TaskFlowOf(r) ==
    [DeviceEUI |-> req[r].dev,
     Name |-> req[r].transcription,
     Headline |-> req[r].headline,
     TriggerCondition |-> req[r].trigger,
     TargetObjects |-> <<req[r].targetObject>>,
     Actions |-> << <<"n", "o", "t", "i", "f", "y">> >>,
     ModelType |-> req[r].modelType]

\* SaveTaskFlow, first half: now := time.Now().  The clock does not run
\* backwards; two reads can give the same instant.  Instant 0 is the start
\* of the server, before any read.
SaveNow(r) ==
    /\ At(r, "now")
    /\ \E now \in {clock + 1} \cup (IF clock > 0 THEN {clock} ELSE {}) :
         /\ clock' = now
         /\ req' = [req EXCEPT ![r] = [@ EXCEPT !.pc = "insert", !.now = now]]
    /\ UNCHANGED <<store, nextId, lastFetch, fixed>>

\* processTaskMode returns the confirmation sentence.
Confirmed(r, ev, id) ==
    req' = [req EXCEPT ![r] = [@ EXCEPT
               !.pc = "tts",
               !.id = id,
               !.now = 0,
               !.ollamaResponse = Confirmation(req[r].headline, req[r].trigger),
               !.trace = Log(r, ev)]]

\* SaveTaskFlow failed: logged, the confirmation is returned anyway.
SaveFailedFatal(r) == Fail(r, "insert_err", 500)

SaveFailed(r) == Confirmed(r, "insert_err", 0)

\* SaveTaskFlow, second half: the INSERT runs, then processTaskMode returns.
SaveExec(r) ==
    /\ At(r, "insert")
    /\ \/ /\ store' = store \cup {NewRow(TaskFlowOf(r), nextId, req[r].now)}
          /\ nextId' = nextId + 1
          /\ Confirmed(r, "insert", nextId)
       \/ /\ Down("insert")
          /\ SaveFailed(r)
          /\ UNCHANGED <<store, nextId>>
    /\ UNCHANGED <<clock, lastFetch, fixed>>

----------------------------------------------------------------------------
(* Steps 4 to 6: TTS and the framed response                               *)

\* Step 4 failed: the handler answers 500 and returns.
SynthesizeFailedSilent(r) ==
    req' = [req EXCEPT ![r] = [@ EXCEPT !.pc = "write",
                                        !.trace = Log(r, "tts_err")]]

SynthesizeFailed(r) == Fail(r, "tts_err", 500)

\* the table after step 4 failed: the error path does not touch it
StoreAfterTtsFailureRolledBack(r) ==
    {f \in store : f.id # req[r].id}

StoreAfterTtsFailure(r) == store

\* Step 4: synthesizeSpeech(ollamaResponse).
SynthesizeSpeech(r) ==
    /\ At(r, "tts")
    /\ \/ /\ \E size \in TtsOffered :
               req' = [req EXCEPT ![r] = [@ EXCEPT !.pc = "write",
                                          !.audioData = size,
                                          !.trace = Log(r, "tts")]]
          /\ store' = store
       \/ /\ Down("tts")
          /\ SynthesizeFailed(r)
          /\ store' = StoreAfterTtsFailure(r)
    /\ UNCHANGED <<nextId, clock, lastFetch, fixed>>

MultipartBoundary ==
    <<"-", "-", "-", "s", "e", "n", "s", "e", "c", "r", "a", "f", "t",
      "b", "o", "u", "n", "d", "a", "r", "y", "-", "-", "-">>

\* totalSize, the value of the Content-Length header
TotalSizeNoNewline(jsonLen, audioLen) ==
    jsonLen + Len(MultipartBoundary) + audioLen

TotalSize(jsonLen, audioLen) ==
    jsonLen + Len(MultipartBoundary) + 1 + audioLen

\* The body written with status 200: JSON header, boundary, newline, audio.
WriteResponse(r) ==
    /\ At(r, "write")
    /\ LET audioDurationMs == AudioDurationMs(req[r].audioData)
           jsonLen == JsonLen(req[r].mode, audioDurationMs,
                              req[r].transcription, req[r].ollamaResponse)
       IN  req' = [req EXCEPT ![r] = [@ EXCEPT
                  !.pc = "done",
                  !.status = 200,
                  !.written = [contentLength |->
                                   TotalSize(jsonLen, req[r].audioData),
                               body |-> <<"json", "boundary", "audio">>,
                               jsonBytes |-> jsonLen,
                               json |-> [code |-> 200,
                                         mode |-> req[r].mode,
                                         duration |-> audioDurationMs,
                                         stt_result |-> req[r].transcription,
                                         screen_text |-> req[r].ollamaResponse],
                               boundary |-> MultipartBoundary \o <<"\n">>,
                               audio |-> req[r].audioData],
                  !.trace = Log(r, "write")]]
    /\ UNCHANGED <<store, nextId, clock, lastFetch, fixed>>

----------------------------------------------------------------------------
(* Task-detail endpoint                                                    *)

\* A request for deviceEUI has deleted a prior flow and not yet inserted
\* its own: the state between the two halves of the supersession.
Has(r, ev) == \E i \in 1..Len(req[r].trace) : req[r].trace[i] = ev

MidSupersede(deviceEUI) ==
    \E r \in Reqs : /\ req[r].dev = deviceEUI
                    /\ req[r].pc \in {"delete", "now", "insert"}
                    /\ Has(r, "delete")

NoFetch ==
    [dev |-> "none", status |-> 0, code |-> 0, tl |-> EmptyTl, mid |-> FALSE]

\* data.tl of the response: the first flow of the list reified, or the
\* empty object when the device has no flow.
NullTl == [empty |-> FALSE]

TaskDetailTlNull(taskFlows) ==
    IF Len(taskFlows) > 0 THEN convertToNodeREDFormat(taskFlows[1])
    ELSE NullTl

TaskDetailTlLast(taskFlows) ==
    IF Len(taskFlows) > 0
    THEN convertToNodeREDFormat(taskFlows[Len(taskFlows)])
    ELSE EmptyTl

TaskDetailTl(taskFlows) ==
    IF Len(taskFlows) > 0 THEN convertToNodeREDFormat(taskFlows[1])
    ELSE EmptyTl

\* TaskDetailHandler: one query, then the newest flow reified, or tl = {}.
\* lastFetch holds the response until the handler has returned.
TaskDetailHandler(deviceEUI) ==
    /\ Quiet
    /\ \/ \E taskFlows \in GetTaskFlowsByDevice(deviceEUI) :
            lastFetch' = [dev |-> deviceEUI, status |-> 200, code |-> 200,
                          tl |-> TaskDetailTl(taskFlows),
                          mid |-> MidSupersede(deviceEUI)]
       \/ /\ Down("fetch")
          /\ lastFetch' = [dev |-> deviceEUI, status |-> 500, code |-> 0,
                           tl |-> EmptyTl, mid |-> MidSupersede(deviceEUI)]
    /\ UNCHANGED <<req, store, nextId, clock, fixed>>

TaskDetailReturn ==
    /\ ~Quiet
    /\ lastFetch' = NoFetch
    /\ UNCHANGED <<req, store, nextId, clock, fixed>>

----------------------------------------------------------------------------
(* Routing and middleware                                                  *)

\* The routes main registers: path, accepted methods, the router holding it
\* and the handler it runs.
Routes ==
    { [path |-> "/v1/notification/event", methods |-> {"POST"},
       router |-> "v1", handler |-> "NotificationHandler"],
      [path |-> "/v1/watcher/vision", methods |-> {"POST"},
       router |-> "v1", handler |-> "VisionHandler"],
      [path |-> "/v2/watcher/talk/audio_stream", methods |-> {"POST"},
       router |-> "v2", handler |-> "AudioStreamHandler"],
      [path |-> "/v2/watcher/talk/view_task_detail",
       methods |-> {"GET", "POST"},
       router |-> "v2", handler |-> "TaskDetailHandler"],
      [path |-> "/health", methods |-> {"GET"},
       router |-> "root", handler |-> "health"] }

RouteOf(path) == CHOOSE rt \in Routes : rt.path = path

\* cfg.Auth.Token: empty unless -token or AUTH_TOKEN gives one
Tokens == {"", "s3cret"}

\* cfg.Auth.Enabled
AuthEnabled(token) == token # ""

\* values of the Authorization header ("" when the header is missing)
AuthHeaders == {"", "s3cret", "Bearer s3cret", "Device s3cret", "guess"}

\* values of the API-OBITER-DEVICE-EUI header ("" when it is missing)
EuiHeaders == {"", "2CF7F1C04430000C", "2CF7F1C0443"}

IdleGate ==
    [pc |-> "idle", token |-> "", path |-> "", method |-> "",
     authorization |-> "", eui |-> "", status |-> 0, ran |-> "none",
     trace |-> <<>>]

\* a request that matched a route, at the first middleware that decides
GateRequests ==
    { g \in [pc : {"eui"}, token : Tokens,
             path : {rt.path : rt \in Routes}, method : {"GET", "POST"},
             authorization : AuthHeaders, eui : EuiHeaders,
             status : {0}, ran : {"none"}, trace : {<<>>}] :
        g.method \in RouteOf(g.path).methods }

\* the middleware the matched route adds to the global chain
AfterGlobalChain(g) ==
    IF RouteOf(g.path).router \in {"v1", "v2"} /\ AuthEnabled(g.token)
    THEN "auth"
    ELSE "handler"

DeviceEUIWarning(deviceEUI) ==
    IF deviceEUI = "" THEN "warn_missing"
    ELSE IF Len(deviceEUI) # 16 THEN "warn_length"
    ELSE "eui_ok"

AfterDeviceEUIStrict(g) ==
    IF DeviceEUIWarning(g.eui) = "eui_ok"
    THEN [g EXCEPT !.pc = AfterGlobalChain(g),
                   !.trace = Append(@, "eui_ok")]
    ELSE [g EXCEPT !.pc = "done", !.status = 400,
                   !.trace = Append(@, DeviceEUIWarning(g.eui))]

AfterDeviceEUI(g) ==
    [g EXCEPT !.pc = AfterGlobalChain(g),
              !.trace = Append(@, DeviceEUIWarning(g.eui))]

DeviceEUIValidator ==
    /\ gate.pc = "eui"
    /\ gate' = AfterDeviceEUI(gate)
    /\ UNCHANGED <<req, store, nextId, clock, lastFetch, down, solo, vis,
                   ntf, events, arg, res>>

AfterAuthBearer(g) ==
    IF g.token # "" /\ g.authorization \notin {g.token, "Bearer s3cret"}
    THEN [g EXCEPT !.pc = "done", !.status = 401,
                   !.trace = Append(@, "unauthorized")]
    ELSE [g EXCEPT !.pc = "handler", !.trace = Append(@, "authorized")]

AfterAuth(g) ==
    IF g.token # "" /\ g.authorization # g.token
    THEN [g EXCEPT !.pc = "done", !.status = 401,
                   !.trace = Append(@, "unauthorized")]
    ELSE [g EXCEPT !.pc = "handler", !.trace = Append(@, "authorized")]

AuthValidator ==
    /\ gate.pc = "auth"
    /\ gate' = AfterAuth(gate)
    /\ UNCHANGED <<req, store, nextId, clock, lastFetch, down, solo, vis,
                   ntf, events, arg, res>>

\* next.ServeHTTP of the last middleware: the route's handler runs.  The
\* health handler answers inline; the others set their own status.
ServeHTTP ==
    /\ gate.pc = "handler"
    /\ gate' = [gate EXCEPT
                  !.pc = "done",
                  !.ran = RouteOf(gate.path).handler,
                  !.status = IF gate.path = "/health" THEN 200 ELSE @,
                  !.trace = Append(@, "handler")]
    /\ UNCHANGED <<req, store, nextId, clock, lastFetch, down, solo, vis,
                   ntf, events, arg, res>>

InitGate ==
    /\ req = [r \in Reqs |-> IdleReq]
    /\ store = {}
    /\ nextId = 1
    /\ clock = 0
    /\ lastFetch = NoFetch
    /\ down = "none"
    /\ solo = FALSE
    /\ gate \in GateRequests
    /\ vis = IdleVis
    /\ ntf = [n \in Ntfs |-> IdleNtf]
    /\ events = <<>>
    /\ arg = <<>>
    /\ res = 0

NextGate ==
    \/ DeviceEUIValidator
    \/ AuthValidator
    \/ ServeHTTP

SpecGate == InitGate /\ [][NextGate]_vars

----------------------------------------------------------------------------
(* The server                                                              *)

\* The database file outlives the server: at start the table is empty or
\* holds the flow an earlier run saved for a device.
OldRow(deviceEUI) ==
    NewRow([DeviceEUI |-> deviceEUI,
            Name |-> <<"o", "l", "d">>,
            Headline |-> <<"O", "l", "d">>,
            TriggerCondition |-> <<"d", "o", "g">>,
            TargetObjects |-> << <<"d", "o", "g">> >>,
            Actions |-> << <<"n", "o", "t", "i", "f", "y">> >>,
            ModelType |-> 2], 1, 0)

InitialStores == {{}} \cup {{OldRow(d)} : d \in Devices}

Init ==
    /\ req = [r \in Reqs |-> IdleReq]
    /\ store \in InitialStores
    /\ nextId = Cardinality(store) + 1
    /\ clock = 0
    /\ lastFetch = NoFetch
    /\ down \in Outages
    /\ solo \in BOOLEAN
    /\ gate = IdleGate
    /\ vis = IdleVis
    /\ ntf = [n \in Ntfs |-> IdleNtf]
    /\ events = <<>>
    /\ arg = <<>>
    /\ res = 0

Next ==
    \/ \E r \in Reqs, d \in Devices : Begin(r, d)
    \/ \E r \in Reqs : Transcribe(r)
    \/ \E r \in Reqs : DetermineMode(r)
    \/ \E r \in Reqs : ProcessChatMode(r)
    \/ \E r \in Reqs : ExtractTrigger(r)
    \/ \E r \in Reqs : MatchObject(r)
    \/ \E r \in Reqs : SelectModel(r)
    \/ \E r \in Reqs : GenerateHeadline(r)
    \/ \E r \in Reqs : ReadOldTasks(r)
    \/ \E r \in Reqs : DeleteOldTask(r)
    \/ \E r \in Reqs : SaveNow(r)
    \/ \E r \in Reqs : SaveExec(r)
    \/ \E r \in Reqs : SynthesizeSpeech(r)
    \/ \E r \in Reqs : WriteResponse(r)
    \/ \E d \in Devices : TaskDetailHandler(d)
    \/ TaskDetailReturn

Spec == Init /\ [][Next]_vars

----------------------------------------------------------------------------
(* The mode parser on its own: every classifier reply of up to MaxLen       *)
(* characters is given to determineMode.                                    *)

Alphabet == {"0", "1", "2", "x", " "}

Texts == UNION {[1..n -> Alphabet] : n \in 0..MaxLen}

InitMode ==
    /\ req = [r \in Reqs |-> IdleReq]
    /\ store = {}
    /\ nextId = 1
    /\ clock = 0
    /\ lastFetch = NoFetch
    /\ down = "none"
    /\ solo = FALSE
    /\ gate = IdleGate
    /\ vis = IdleVis
    /\ ntf = [n \in Ntfs |-> IdleNtf]
    /\ events = <<>>
    /\ arg \in Texts
    /\ res = -1

ApplyDetermineMode ==
    /\ res = -1
    /\ res' = determineMode([err |-> "none", response |-> arg])
    /\ UNCHANGED <<req, store, nextId, clock, lastFetch, down, solo, gate,
                   vis, ntf, events, arg>>

NextMode == ApplyDetermineMode

SpecMode == InitMode /\ [][NextMode]_vars

----------------------------------------------------------------------------
(* The duration computation on its own: WAV blobs of 0..MaxWav bytes and    *)
(* of one second of audio and up to MaxWav bytes more.                      *)

MaxWav == 100

WavSizes == (0..MaxWav) \cup {BytesPerSec + i : i \in 0..MaxWav}

InitDuration ==
    /\ req = [r \in Reqs |-> IdleReq]
    /\ store = {}
    /\ nextId = 1
    /\ clock = 0
    /\ lastFetch = NoFetch
    /\ down = "none"
    /\ solo = FALSE
    /\ gate = IdleGate
    /\ vis = IdleVis
    /\ ntf = [n \in Ntfs |-> IdleNtf]
    /\ events = <<>>
    /\ arg \in WavSizes
    /\ res = -1

ApplyDuration ==
    /\ res = -1
    /\ res' = AudioDurationMs(arg)
    /\ UNCHANGED <<req, store, nextId, clock, lastFetch, down, solo, gate,
                   vis, ntf, events, arg>>

NextDuration == ApplyDuration

SpecDuration == InitDuration /\ [][NextDuration]_vars

----------------------------------------------------------------------------
(* The model selection on its own: every outcome of the selector call with  *)
(* a reply of up to MaxLen characters.                                      *)

SelectorAlphabet == {"0", "1", "2", "3", ".", " "}

SelectorOutcomes ==
    {[err |-> e, response |-> <<>>] : e \in OllamaFailures}
        \cup {[err |-> "none", response |-> t] :
                 t \in UNION {[1..n -> SelectorAlphabet] : n \in 0..MaxLen}}

InitModelType ==
    /\ req = [r \in Reqs |-> IdleReq]
    /\ store = {}
    /\ nextId = 1
    /\ clock = 0
    /\ lastFetch = NoFetch
    /\ down = "none"
    /\ solo = FALSE
    /\ gate = IdleGate
    /\ vis = IdleVis
    /\ ntf = [n \in Ntfs |-> IdleNtf]
    /\ events = <<>>
    /\ arg \in SelectorOutcomes
    /\ res = -1

ApplyModelType ==
    /\ res = -1
    /\ res' = ModelTypeOf(arg)
    /\ UNCHANGED <<req, store, nextId, clock, lastFetch, down, solo, gate,
                   vis, ntf, events, arg>>

NextModelType == ApplyModelType

SpecModelType == InitModelType /\ [][NextModelType]_vars

----------------------------------------------------------------------------
(* The vision endpoint: VisionHandler                                      *)

\* positive and negative indicators, in the order the handler tests them
IsPositive(analysisLower) ==
    \/ ContainsStr(analysisLower, <<"y", "e", "s">>)
    \/ ContainsStr(analysisLower, <<"t", "h", "e", "r", "e", " ", "i", "s">>)
    \/ ContainsStr(analysisLower,
                   <<"i", " ", "c", "a", "n", " ", "s", "e", "e">>)
    \/ ContainsStr(analysisLower, <<"v", "i", "s", "i", "b", "l", "e">>)
    \/ ContainsStr(analysisLower, <<"p", "r", "e", "s", "e", "n", "t">>)
    \/ ContainsStr(analysisLower, <<"w", "e", "a", "r", "i", "n", "g">>)
    \/ ContainsStr(analysisLower, <<"d", "e", "t", "e", "c", "t", "e", "d">>)

IsNegative(analysisLower) ==
    \/ ContainsStr(analysisLower, <<"n", "o">>)
    \/ ContainsStr(analysisLower, <<"n", "o", "t">>)
    \/ ContainsStr(analysisLower, <<"c", "a", "n", "n", "o", "t">>)
    \/ ContainsStr(analysisLower, <<"c", "a", "n", "'", "t">>)
    \/ ContainsStr(analysisLower, <<"u", "n", "a", "b", "l", "e">>)

\* Step 2: state of the response
EventStateAnyPositive(type, analysis) ==
    IF type = 1 /\ IsPositive(ToLower(analysis)) THEN 1 ELSE 0

EventState(type, analysis) ==
    IF type = 1
    THEN IF IsPositive(ToLower(analysis)) /\ ~IsNegative(ToLower(analysis))
         THEN 1 ELSE 0
    ELSE 0

\* Analyses: up to MaxPhrases phrases, one after the other
MaxPhrases == 2

Phrases ==
    {<<"Y", "e", "s">>,
     <<"T", "h", "e", "r", "e", " ", "i", "s">>,
     <<"I", " ", "c", "a", "n", " ", "s", "e", "e">>,
     <<"v", "i", "s", "i", "b", "l", "e">>,
     <<"p", "r", "e", "s", "e", "n", "t">>,
     <<"w", "e", "a", "r", "i", "n", "g">>,
     <<"d", "e", "t", "e", "c", "t", "e", "d">>,
     <<"n", "o", "t">>,
     <<"c", "a", "n", "n", "o", "t">>,
     <<"c", "a", "n", "'", "t">>,
     <<"u", "n", "a", "b", "l", "e">>,
     <<"N">>, <<"o">>, <<"k">>, <<" ">>,
     <<"a", " ", "d", "o", "g">>}

RECURSIVE Flatten(_)
Flatten(ss) == IF ss = <<>> THEN <<>> ELSE Head(ss) \o Flatten(Tail(ss))

VisionAnalyses ==
    {Flatten(ss) : ss \in UNION {[1..n -> Phrases] : n \in 0..MaxPhrases}}

\* what the vision request can carry
VisionRequests ==
    {[IdleVis EXCEPT !.body = b, !.img = i, !.audioTxt = a, !.type = t] :
        b \in {"unreadable", "malformed", "json"},
        i \in {"", "/9j/"},
        a \in {<<>>, <<"h", "i">>},
        t \in {0, 1, 2}}

VisionOutages == {"none", "vlm", "tts"}

VisAt(pc) == vis.pc = pc

\* http.Error(w, msg, code)
VisFail(ev, code) ==
    vis' = [vis EXCEPT !.pc = "done", !.status = code,
                       !.trace = IF ev = "" THEN @ ELSE Append(@, ev)]

\* where the handler goes after the image check
AfterImageCheckAlways(img) == "analyze"

AfterImageCheck(img) == IF img = "" THEN "rejected" ELSE "analyze"

\* The body is read and decoded, then the image is checked.
VisionBegin ==
    /\ VisAt("idle")
    /\ IF vis.body # "json" THEN VisFail("", 400)
       ELSE IF AfterImageCheck(vis.img) = "rejected" THEN VisFail("", 400)
       ELSE vis' = [vis EXCEPT
                       !.pc = "analyze",
                       !.prompt = IF @ = "" THEN "what's in the picture?"
                                  ELSE @]
    /\ UNCHANGED <<req, store, nextId, clock, lastFetch, down, solo, gate,
                   ntf, events, arg, res>>

\* what the VLM answers in a run; a run that serves all endpoints
\* together draws from two analyses
VisionAnalysesOffered ==
    IF solo THEN {<<"Y", "e", "s">>, <<"n", "o", "t">>} ELSE VisionAnalyses

\* Step 1: analyzeImageWithLLaVA, then step 2 decides the state.
AnalyzeImage ==
    /\ VisAt("analyze")
    /\ \/ \E analysis \in VisionAnalysesOffered :
            vis' = [vis EXCEPT
                       !.pc = IF vis.audioTxt # <<>> THEN "tts" ELSE "write",
                       !.analysis = analysis,
                       !.state = EventState(vis.type, analysis),
                       !.trace = Append(@, "vlm")]
       \/ Down("vlm") /\ VisFail("vlm_err", 500)
    /\ UNCHANGED <<req, store, nextId, clock, lastFetch, down, solo, gate,
                   ntf, events, arg, res>>

\* Step 3 failed: a warning, the handler goes on without audio.
VisionTtsFailedFatal == VisFail("tts_err", 500)

VisionTtsFailed ==
    vis' = [vis EXCEPT !.pc = "write", !.trace = Append(@, "tts_err")]

\* Step 3: synthesizeSpeech(req.AudioTxt)
VisionSynthesize ==
    /\ VisAt("tts")
    /\ \/ \E size \in TtsReplies :
            vis' = [vis EXCEPT !.pc = "write", !.audio = <<size>>,
                               !.trace = Append(@, "tts")]
       \/ Down("tts") /\ VisionTtsFailed
    /\ UNCHANGED <<req, store, nextId, clock, lastFetch, down, solo, gate,
                   ntf, events, arg, res>>

\* The response is written with status 200.
VisionWrite ==
    /\ VisAt("write")
    /\ vis' = [vis EXCEPT
                  !.pc = "done",
                  !.status = 200,
                  !.response = [code |-> 200, state |-> vis.state,
                                type |-> vis.type, audio |-> vis.audio],
                  !.trace = Append(@, "write")]
    /\ UNCHANGED <<req, store, nextId, clock, lastFetch, down, solo, gate,
                   ntf, events, arg, res>>

InitVision ==
    /\ req = [r \in Reqs |-> IdleReq]
    /\ store = {}
    /\ nextId = 1
    /\ clock = 0
    /\ lastFetch = NoFetch
    /\ down \in VisionOutages
    /\ solo = FALSE
    /\ gate = IdleGate
    /\ vis \in VisionRequests
    /\ ntf = [n \in Ntfs |-> IdleNtf]
    /\ events = <<>>
    /\ arg = <<>>
    /\ res = 0

NextVision ==
    \/ VisionBegin
    \/ AnalyzeImage
    \/ VisionSynthesize
    \/ VisionWrite

SpecVision == InitVision /\ [][NextVision]_vars

----------------------------------------------------------------------------
(* The notification endpoint: NotificationHandler                          *)

\* what the notification requests can carry; request n has requestId n
\* (the ids are numbered, not spelled)
NotificationRequestsOf(n) ==
    {[IdleNtf EXCEPT !.body = b, !.dev = d, !.text = t, !.timestamp = ts,
                     !.requestId = n] :
        b \in {"unreadable", "malformed", "json"},
        d \in {"d1"},
        t \in {<<>>, << <<"d", "o", "g">> >>},
        ts \in {<<>>, <<1700>>}}

\* SaveNotificationEvent can fail in db.Exec or in result.LastInsertId
NotifyOutages == {"none", "insert", "lastid"}

\* getTimestamp
getTimestamp(ts) == IF ts = <<>> THEN 0 ELSE ts[1]

\* getString
getString(str) == IF str = <<>> THEN <<>> ELSE str[1]

\* event := &database.NotificationEvent{...} as the INSERT stores it
EventRow(n, id, now) ==
    [id |-> id,
     request_id |-> ntf[n].requestId,
     device_eui |-> ntf[n].dev,
     timestamp |-> getTimestamp(ntf[n].timestamp),
     text |-> getString(ntf[n].text),
     created_at |-> now]

\* The body is read and decoded.
NotificationBegin(n) ==
    /\ ntf[n].pc = "idle"
    /\ ntf' = [ntf EXCEPT ![n] =
                  IF @.body = "json" THEN [@ EXCEPT !.pc = "save"]
                  ELSE [@ EXCEPT !.pc = "done", !.status = 400]]
    /\ UNCHANGED <<req, store, nextId, clock, lastFetch, down, solo, gate,
                   vis, events, arg, res>>

\* saveNotificationToDatabase got an error: a warning is logged.
NotifySaveFailedFatal(n, ev, rows) ==
    ntf' = [ntf EXCEPT ![n] = [@ EXCEPT
               !.pc = "done", !.status = 500,
               !.before = Len(events), !.after = Len(rows),
               !.trace = Append(@, ev)]]

NotifySaveFailed(n, ev, rows) ==
    ntf' = [ntf EXCEPT ![n] = [@ EXCEPT
               !.pc = "respond",
               !.before = Len(events), !.after = Len(rows),
               !.trace = Append(@, ev)]]

\* saveNotificationToDatabase: SaveNotificationEvent(event)
SaveNotification(n) ==
    /\ ntf[n].pc = "save"
    /\ clock' = clock + 1
    /\ LET rows == Append(events, EventRow(n, Len(events) + 1, clock + 1))
       IN  \/ /\ events' = rows
              /\ ntf' = [ntf EXCEPT ![n] = [@ EXCEPT
                            !.pc = "respond",
                            !.before = Len(events), !.after = Len(rows),
                            !.trace = Append(@, "insert")]]
           \/ /\ Down("insert")
              /\ events' = events
              /\ NotifySaveFailed(n, "insert_err", events)
           \/ /\ Down("lastid")
              /\ events' = rows
              /\ NotifySaveFailed(n, "lastid_err", rows)
    /\ UNCHANGED <<req, store, nextId, lastFetch, down, solo, gate, vis, arg,
                   res>>

\* The response {code: 200} is written with status 200.
NotificationRespond(n) ==
    /\ ntf[n].pc = "respond"
    /\ ntf' = [ntf EXCEPT ![n] = [@ EXCEPT !.pc = "done", !.status = 200,
                                           !.code = 200]]
    /\ UNCHANGED <<req, store, nextId, clock, lastFetch, down, solo, gate,
                   vis, events, arg, res>>

InitNotify ==
    /\ req = [r \in Reqs |-> IdleReq]
    /\ store = {}
    /\ nextId = 1
    /\ clock = 0
    /\ lastFetch = NoFetch
    /\ down \in NotifyOutages
    /\ solo = FALSE
    /\ gate = IdleGate
    /\ vis = IdleVis
    /\ ntf \in {f \in [Ntfs -> UNION {NotificationRequestsOf(n) : n \in Ntfs}] :
                   \A n \in Ntfs : f[n] \in NotificationRequestsOf(n)}
    /\ events = <<>>
    /\ arg = <<>>
    /\ res = 0

NextNotify ==
    \/ \E n \in Ntfs : NotificationBegin(n)
    \/ \E n \in Ntfs : SaveNotification(n)
    \/ \E n \in Ntfs : NotificationRespond(n)

SpecNotify == InitNotify /\ [][NextNotify]_vars

----------------------------------------------------------------------------
(* History read off the traces                                             *)

StoreFaults == {"read_err", "delete_err", "delete_notfound", "insert_err"}

StoreEvents == {"read", "delete", "insert"} \cup StoreFaults

LlmEvents ==
    {"mode", "chat", "chat_err", "trigger", "trigger_err", "match",
     "match_err", "model", "model_err", "headline", "headline_err"}

TtsEvents == {"tts", "tts_err"}

HasAny(r, evs) == \E i \in 1..Len(req[r].trace) : req[r].trace[i] \in evs

\* r is a task-mode request that has used the table
TouchedStore(r) == HasAny(r, StoreEvents)

\* r is a task-mode request still inside its handler
TaskInProgress(r) == req[r].mode # 0 /\ req[r].pc \notin {"idle", "done"}

\* r ran wholly before q
Before(r, q) == r \in req[q].pred

\* the rows of a device with the newest creation instant
Newest(deviceEUI) ==
    {f \in RowsOf(deviceEUI) :
        \A g \in RowsOf(deviceEUI) : g.created_at <= f.created_at}

----------------------------------------------------------------------------
(* Task supersession                                                       *)

\* r1 then r2 compiled a task for the same device, one after the other,
\* every statement succeeded and no other request for the device used the
\* table.
RanInTurn(r1, r2) ==
    /\ r1 # r2
    /\ req[r1].dev = req[r2].dev
    /\ Before(r1, r2)
    /\ Has(r1, "insert") /\ Has(r2, "insert")
    /\ ~HasAny(r1, StoreFaults) /\ ~HasAny(r2, StoreFaults)
    /\ \A r3 \in Reqs \ {r1, r2} :
          req[r3].dev = req[r1].dev => ~TouchedStore(r3)

\* C1: after two task-mode requests for one device ran one after the other
\* with every store operation succeeding, GetTaskFlowsByDevice returns
\* exactly one flow, the one the second request created.
C1_SupersededInTurn ==
    \A r1, r2 \in Reqs :
        RanInTurn(r1, r2) =>
            \A rows \in GetTaskFlowsByDevice(req[r2].dev) :
                Len(rows) = 1 /\ rows[1].id = req[r2].id

C1_Witness ==
    \E r1, r2 \in Reqs :
        /\ RanInTurn(r1, r2)
        /\ req[r1].id # 0 /\ req[r2].id # req[r1].id
        /\ Cardinality(RowsOf(req[r2].dev)) = 1

InTurn(d) ==
    \A r, q \in Reqs :
        (r # q /\ req[r].dev = d /\ req[q].dev = d
            /\ req[r].mode # 0 /\ req[q].mode # 0)
        => (Before(r, q) \/ Before(q, r))

----------------------------------------------------------------------------
(* Task-detail fetches against racing requests                             *)

\* a task-detail response for its device is on its way out; the table is
\* as the query saw it
Fetched == lastFetch.status = 200

\* r1 and r2 compiled a task for the same device at overlapping times and
\* both have finished; r2's INSERT ran last (ids are handed out in the
\* order of the INSERTs).
Raced(r1, r2) ==
    /\ r1 # r2
    /\ req[r1].dev = req[r2].dev
    /\ ~Before(r1, r2) /\ ~Before(r2, r1)
    /\ Finished(r1) /\ Finished(r2)
    /\ Has(r1, "insert") /\ Has(r2, "insert")
    /\ req[r1].id < req[r2].id

\* C3 as claimed: once two racing task-creating requests have finished, a
\* task-detail fetch returns the flow of the request that inserted last
\* (stated for the runs in which no call or statement is down).
C3_LastWriterWins ==
    \A r1, r2 \in Reqs :
        (down = "none" /\ Fetched /\ Raced(r1, r2)
            /\ lastFetch.dev = req[r2].dev)
        => (lastFetch.tl # EmptyTl /\ lastFetch.tl.tlid = req[r2].id)

\* C3 amended: at any fetch time the task-detail endpoint returns the
\* graph of a stored flow of the device with the newest creation instant
\* (the empty object when the device has none); after a race this need not
\* be the flow of the request that inserted last.
C3_FetchReturnsNewest ==
    Fetched =>
        IF RowsOf(lastFetch.dev) = {}
        THEN lastFetch.tl = EmptyTl
        ELSE \E f \in Newest(lastFetch.dev) :
                lastFetch.tl = convertToNodeREDFormat(f)

C3_Witness ==
    \E r1, r2 \in Reqs :
        /\ Fetched /\ Raced(r1, r2) /\ lastFetch.dev = req[r2].dev
        /\ lastFetch.tl # EmptyTl
        /\ lastFetch.tl.tlid = req[r1].id
        /\ \E f \in RowsOf(lastFetch.dev) : f.id = req[r2].id

\* C4 as claimed: a fetch that falls between a request's deletes of the
\* prior flows and its insert never sees the intermediate state, so it
\* never returns the empty object.
C4_SupersedeAtomic ==
    (Fetched /\ lastFetch.mid) => lastFetch.tl # EmptyTl

\* C4 amended: a fetch that falls between a request's deletes and its
\* insert returns the empty object exactly when the table holds no flow of
\* the device at that instant (the intermediate state is visible), and
\* otherwise the complete four-node graph of a flow stored for the device.
C4_FetchDuringSupersede ==
    (Fetched /\ lastFetch.mid) =>
        /\ lastFetch.tl = EmptyTl <=> RowsOf(lastFetch.dev) = {}
        /\ lastFetch.tl # EmptyTl =>
              \E f \in RowsOf(lastFetch.dev) :
                  /\ lastFetch.tl.tlid = f.id
                  /\ lastFetch.tl.tn = f.headline
                  /\ Len(lastFetch.tl.task_flow) = 4

C4_Witness ==
    /\ Fetched /\ lastFetch.mid
    /\ lastFetch.tl = EmptyTl
    /\ \E r \in Reqs : req[r].dev = lastFetch.dev /\ req[r].pc = "insert"

----------------------------------------------------------------------------
(* The stages of one voice request                                         *)

BranchEvents == (LlmEvents \ {"mode"}) \cup StoreEvents

\* the stage an event of the trace belongs to
Stage(ev) ==
    CASE ev \in {"stt", "stt_err"} -> 1
      [] ev = "mode" -> 2
      [] ev \in BranchEvents -> 3
      [] ev \in TtsEvents -> 4
      [] ev = "write" -> 5
      [] OTHER -> 0

\* C5: within one voice request the stages run in the order STT, mode
\* classification, branch, TTS, response write: the classifier is called
\* only after STT returned a transcript, TTS only once the reply text
\* exists, and the framed response is written only after TTS returned.
C5_StagesInOrder ==
    \A r \in Reqs :
        LET t == req[r].trace IN
        /\ \A i, j \in 1..Len(t) : i < j => Stage(t[i]) <= Stage(t[j])
        /\ \A i \in 1..Len(t) :
              /\ t[i] = "mode" => i > 1 /\ t[i - 1] = "stt"
              /\ t[i] \in BranchEvents => \E j \in 1..(i - 1) : t[j] = "mode"
              /\ t[i] \in TtsEvents =>
                    /\ t[i - 1] \in {"chat", "insert", "insert_err"}
                    /\ req[r].ollamaResponse # <<>>
              /\ t[i] = "write" => t[i - 1] = "tts"
        /\ req[r].status = 200 => t # <<>> /\ t[Len(t)] = "write"

C5_Witness ==
    \E r, q \in Reqs :
        /\ req[r].status = 200 /\ req[r].mode = 0
        /\ req[q].status = 200 /\ req[q].mode # 0

----------------------------------------------------------------------------
(* Mode classification                                                     *)

ClassifierUndecided(r) ==
    \/ req[r].classifier.err \in ClassifierFailures
    \/ /\ req[r].classifier.err = "none"
       /\ ~Contains(req[r].classifier.response, "1")
       /\ ~Contains(req[r].classifier.response, "2")

\* C7: when the classifier call fails on the network, returns an
\* undecodable body or returns text without digit 1 or 2, the mode is 0,
\* the request is not failed by that stage and goes on to the chat stage.
C7_ClassifierNeverFails ==
    \A r \in Reqs :
        ClassifierUndecided(r) =>
            /\ req[r].mode = 0
            /\ req[r].trace[Len(req[r].trace)] = "mode" =>
                  req[r].pc = "chat" /\ req[r].status = 0
            /\ ~HasAny(r, BranchEvents \ {"chat", "chat_err"})

C7_Witness ==
    /\ \E r \in Reqs : /\ req[r].classifier.err = "post_err"
                       /\ req[r].status = 200
                       /\ Has(r, "chat")
    /\ \E r \in Reqs : /\ req[r].classifier.err = "decode_err"
                       /\ req[r].pc = "chat"

----------------------------------------------------------------------------
(* Failures inside task compilation                                        *)

SubPromptFaults == {"trigger_err", "match_err", "model_err", "headline_err"}

\* r has returned and its TTS call, if it made one, did not fail
EndedPastTts(r) == Finished(r) /\ ~Has(r, "tts_err")

\* r ended with status 200 and the confirmation sentence as screen text
EndedConfirmed(r) ==
    /\ req[r].status = 200
    /\ req[r].written.json.code = 200
    /\ req[r].written.json.screen_text =
          Confirmation(req[r].headline, req[r].trigger)

\* C8 as claimed: a failure of any of the four task-mode sub-prompts
\* leaves the request ending with status 200 and a confirmation sentence.
C8_AnySubPromptNonFatal ==
    \A r \in Reqs :
        (HasAny(r, SubPromptFaults) /\ EndedPastTts(r)) => EndedConfirmed(r)

\* C8 amended: a failure of the word matcher, the model selector or the
\* headline prompt falls back to its default (person, model 1, "Task
\* created") and the request still ends with status 200 and the
\* confirmation sentence; a failure of the trigger extractor ends the
\* request with status 500 before any further sub-prompt, store statement
\* or TTS call.
C8_SubPromptFallbacks ==
    \A r \in Reqs :
        /\ Has(r, "match_err") =>
              req[r].targetObject = <<"p", "e", "r", "s", "o", "n">>
        /\ Has(r, "model_err") => req[r].modelType = 1
        /\ Has(r, "headline_err") =>
              req[r].headline = <<"Task", " ", "created">>
        /\ (HasAny(r, SubPromptFaults \ {"trigger_err"}) /\ EndedPastTts(r))
              => EndedConfirmed(r)
        /\ Has(r, "trigger_err") =>
              /\ req[r].trace = <<"stt", "mode", "trigger_err">>
              /\ req[r].pc = "done"
              /\ req[r].status = 500
              /\ req[r].written = "none"

C8_Witness ==
    \E r \in Reqs :
        /\ HasAny(r, SubPromptFaults \ {"trigger_err"})
        /\ EndedConfirmed(r)
        /\ \E f \in store : f.id = req[r].id

\* C9: when the read of prior flows, a delete of a prior flow or the
\* insert of the new flow fails, processTaskMode still returns the
\* confirmation sentence, and the request ends with status 200 and a
\* framed response (provided TTS, which comes after, does not fail).
C9_StoreFaultNonFatal ==
    \A r \in Reqs :
        HasAny(r, StoreFaults) =>
            /\ ~Has(r, "tts_err") => req[r].status \in {0, 200}
            /\ HasAny(r, {"insert", "insert_err"}) =>
                  req[r].ollamaResponse =
                      Confirmation(req[r].headline, req[r].trigger)
            /\ EndedPastTts(r) =>
                  /\ EndedConfirmed(r)
                  /\ req[r].written.boundary = MultipartBoundary \o <<"\n">>
                  /\ req[r].written.audio \in TtsReplies

C9_Witness ==
    \E r \in Reqs :
        /\ Has(r, "insert_err")
        /\ EndedConfirmed(r)
        /\ \A f \in store : f.id # req[r].id

\* C10: when the STT call fails the request ends with status 500, and it
\* makes no LLM call, no TTS call and no store read or write.
C10_SttFailureEndsRequest ==
    \A r \in Reqs :
        Has(r, "stt_err") =>
            /\ req[r].trace = <<"stt_err">>
            /\ ~HasAny(r, LlmEvents \cup TtsEvents \cup StoreEvents)
            /\ req[r].pc = "done"
            /\ req[r].status = 500
            /\ req[r].written = "none"

C10_Witness ==
    \E r, q \in Reqs :
        /\ Has(r, "stt_err") /\ Finished(r)
        /\ req[q].status = 200

----------------------------------------------------------------------------
(* The framed response                                                     *)

\* C11: when the TTS call of a voice request fails, the request ends with
\* status 500 right there and nothing of the framed response (JSON header,
\* boundary, audio) is written.
C11_TtsFailureIsFatal ==
    \A r \in Reqs :
        Has(r, "tts_err") =>
            /\ req[r].pc = "done"
            /\ req[r].status = 500
            /\ req[r].trace[Len(req[r].trace)] = "tts_err"
            /\ ~Has(r, "write")
            /\ req[r].written = "none"

C11_Witness ==
    \E r \in Reqs :
        /\ Has(r, "tts_err")
        /\ HasAny(r, {"chat", "insert"})
        /\ Finished(r)

\* r has written its framed response
Framed(r) == req[r].status = 200 /\ Has(r, "write")

\* C12: the body of a successful voice response is the JSON header, then
\* the 24-character boundary literal, then one newline, then the audio and
\* nothing more, and Content-Length is len(J) + len(boundary) + 1 + len(A),
\* the number of body bytes written.
C12_FramedBody ==
    \A r \in Reqs :
        Framed(r) =>
            LET w == req[r].written IN
            /\ w.body = <<"json", "boundary", "audio">>
            /\ w.jsonBytes > 0
            /\ Len(w.boundary) = 25
            /\ SubSeq(w.boundary, 1, 24) = MultipartBoundary
            /\ w.boundary[25] = "\n"
            /\ w.audio = req[r].audioData
            /\ w.contentLength = w.jsonBytes + 24 + 1 + w.audio
            /\ w.contentLength = w.jsonBytes + Len(w.boundary) + w.audio

C12_Witness ==
    \E r \in Reqs :
        /\ Framed(r)
        /\ req[r].mode = 2
        /\ req[r].audioData = 43
        /\ req[r].written.json.duration = 0

\* the voice-chat scenario: a chat reply spoken as a 32044-byte WAV
VoiceChatScenario(r) ==
    /\ Framed(r)
    /\ req[r].mode = 0
    /\ req[r].audioData = 32044

\* C13 as claimed: in the voice-chat scenario Content-Length is
\* len(J) + 25 + 1 + 32044.
C13_ScenarioLength25 ==
    \A r \in Reqs :
        VoiceChatScenario(r) =>
            req[r].written.contentLength =
                req[r].written.jsonBytes + 25 + 1 + 32044

\* C13 amended: in the voice-chat scenario Content-Length is
\* len(J) + 24 + 1 + 32044, the boundary literal having 24 characters.
C13_ScenarioLength24 ==
    \A r \in Reqs :
        VoiceChatScenario(r) =>
            /\ req[r].written.json.duration = 1000
            /\ req[r].written.contentLength =
                  req[r].written.jsonBytes + 24 + 1 + 32044

C13_Witness ==
    \E r \in Reqs :
        /\ VoiceChatScenario(r)
        /\ req[r].written.contentLength = 32069 + req[r].written.jsonBytes

\* C14 as claimed: the duration of a TTS output of S bytes is
\* (S - 44) * 1000 div 32000 when S >= 44 and 0 when S < 44.
C14_DurationTruncates ==
    res # -1 =>
        res = IF arg >= 44 THEN ((arg - 44) * 1000) \div 32000 ELSE 0

\* a blob with 32032 bytes of audio, 1001 ms of it, is given 1000 ms
C14_Witness == arg = 32076 /\ res = 1000

----------------------------------------------------------------------------
(* The task flow that task compilation creates                             *)

\* C15: the model kind is 2 if the normalized selector output contains
\* digit 2, otherwise 3 if it contains digit 3, otherwise 0 if it contains
\* digit 0, otherwise 1; a failed selector call gives 1.
C15_ModelKindPrecedence ==
    res # -1 =>
        LET out == cleanLLMResponse(arg.response) IN
        /\ arg.err # "none" => res = 1
        /\ arg.err = "none" =>
              /\ Contains(out, "2") => res = 2
              /\ (~Contains(out, "2") /\ Contains(out, "3")) => res = 3
              /\ (\A c \in {"2", "3"} : ~Contains(out, c)) /\ Contains(out, "0")
                    => res = 0
              /\ (\A c \in {"2", "3", "0"} : ~Contains(out, c)) => res = 1

C15_Witness ==
    /\ arg = [err |-> "none", response |-> <<"3", " ", "2">>]
    /\ res = 2

\* the task flow r has created, if it is still stored
FlowsOf(r) == {f \in store : Has(r, "insert") /\ f.id = req[r].id}

\* the word matcher of r failed or its normalized output is empty
MatcherGaveNothing(r) ==
    \/ req[r].matcher.err \notin {"unset", "none"}
    \/ /\ req[r].matcher.err = "none"
       /\ MatchedObject(req[r].matcher.response) = <<>>

\* C16 as claimed: when the word-matcher call fails or yields nothing, the
\* single target class of the created task flow is person.
C16_TargetDefaultsToPerson ==
    \A r \in Reqs :
        MatcherGaveNothing(r) =>
            \A f \in FlowsOf(r) :
                f.target_objects = << <<"p", "e", "r", "s", "o", "n">> >>

\* a flow is stored whose single target class is the empty string
C16_Witness ==
    \E r \in Reqs :
        /\ req[r].matcher = [err |-> "none", response |-> <<" ", ".">>]
        /\ \E f \in FlowsOf(r) : f.target_objects = << <<>> >>

\* what the code does: a failed matcher call gives person, an empty
\* matcher output gives a flow whose target class is the empty string.
C16_TargetOfFailedMatcher ==
    \A r \in Reqs :
        \A f \in FlowsOf(r) :
            /\ Len(f.target_objects) = 1
            /\ req[r].matcher.err = "post_err" =>
                  f.target_objects[1] = <<"p", "e", "r", "s", "o", "n">>
            /\ req[r].matcher.err = "none" =>
                  f.target_objects[1] = MatchedObject(req[r].matcher.response)

----------------------------------------------------------------------------
(* The vision endpoint                                                     *)

PositiveCues ==
    {<<"y", "e", "s">>,
     <<"t", "h", "e", "r", "e", " ", "i", "s">>,
     <<"i", " ", "c", "a", "n", " ", "s", "e", "e">>,
     <<"v", "i", "s", "i", "b", "l", "e">>,
     <<"p", "r", "e", "s", "e", "n", "t">>,
     <<"w", "e", "a", "r", "i", "n", "g">>,
     <<"d", "e", "t", "e", "c", "t", "e", "d">>}

NegativeCues ==
    {<<"n", "o">>, <<"n", "o", "t">>, <<"c", "a", "n", "n", "o", "t">>,
     <<"c", "a", "n", "'", "t">>, <<"u", "n", "a", "b", "l", "e">>}

VisHas(ev) == \E i \in 1..Len(vis.trace) : vis.trace[i] = ev

\* C17: the vision response state is 0 for every request of type 0; for
\* type 1 it is 1 exactly when the lower-cased analysis contains a positive
\* cue and no negative cue as a substring; the response type echoes the
\* request type.
C17_VisionState ==
    vis.status = 200 =>
        LET lower == ToLower(vis.analysis)
            positive == \E c \in PositiveCues : ContainsStr(lower, c)
            negative == \E c \in NegativeCues : ContainsStr(lower, c)
        IN  /\ vis.response.type = vis.type
            /\ vis.type = 0 => vis.response.state = 0
            /\ vis.type = 1 =>
                  (vis.response.state = 1 <=> (positive /\ ~negative))
            /\ vis.response.state \in {0, 1}

\* a monitoring request whose analysis is "Yesk": an event
C17_Witness ==
    /\ vis.status = 200
    /\ vis.type = 1
    /\ vis.analysis = <<"Y", "e", "s", "k">>
    /\ vis.response.state = 1

\* C18: in the vision pipeline a failed TTS call is not fatal: the request
\* still ends with status 200, code 200, the state computed from the
\* analysis, and no audio.
C18_VisionTtsNonFatal ==
    VisHas("tts_err") =>
        /\ vis.audioTxt # <<>>
        /\ vis.status \in {0, 200}
        /\ vis.audio = <<>>
        /\ vis.pc = "done" =>
              /\ vis.status = 200
              /\ vis.response.code = 200
              /\ vis.response.state = EventState(vis.type, vis.analysis)
              /\ vis.response.audio = <<>>

C18_Witness ==
    /\ VisHas("tts_err")
    /\ vis.pc = "done"
    /\ vis.type = 1
    /\ vis.response.state = 1

\* C19: a vision request whose img field is missing or empty is rejected
\* with status 400, and neither the VLM nor the TTS service is called.
C19_NoImageRejected ==
    (vis.body = "json" /\ vis.img = "" /\ vis.pc # "idle") =>
        /\ vis.pc = "done"
        /\ vis.status = 400
        /\ vis.trace = <<>>

C19_Witness ==
    /\ vis.body = "json"
    /\ vis.img = ""
    /\ vis.audioTxt # <<>>
    /\ vis.status = 400

----------------------------------------------------------------------------
(* The notification endpoint                                               *)

NtfHas(n, ev) == \E i \in 1..Len(ntf[n].trace) : ntf[n].trace[i] = ev

\* the stored events that came with request n
EventsOf(n) ==
    {i \in 1..Len(events) : events[i].request_id = ntf[n].requestId}

\* C20: a notification request whose body the handler decodes is answered
\* with status 200 and {code: 200} whether the event insert succeeds or
\* fails; a failed insert leaves the stored events unchanged.
C20_NotificationAlwaysOk ==
    \A n \in Ntfs :
        /\ (ntf[n].body = "json" /\ ntf[n].pc = "done") =>
              ntf[n].status = 200 /\ ntf[n].code = 200
        /\ (ntf[n].body = "json" /\ ntf[n].pc # "idle") =>
              ntf[n].status \in {0, 200}
        /\ NtfHas(n, "insert_err") =>
              /\ ntf[n].after = ntf[n].before
              /\ EventsOf(n) = {}
        /\ NtfHas(n, "insert") =>
              /\ ntf[n].after = ntf[n].before + 1
              /\ Cardinality(EventsOf(n)) = 1

C20_Witness ==
    \E n, m \in Ntfs :
        /\ NtfHas(n, "insert_err") /\ ntf[n].status = 200
        /\ NtfHas(m, "insert") /\ ntf[m].status = 200
        /\ Len(events) = 1

----------------------------------------------------------------------------
(* The middleware chain                                                    *)

Guarded(g) == RouteOf(g.path).router \in {"v1", "v2"}

C26_DeviceEUINeverRejects ==
    /\ Len(gate.trace) = 1 =>
          /\ gate.pc = AfterGlobalChain(gate)
          /\ gate.status = 0
    /\ gate.pc = "done" =>
          /\ Len(gate.trace) > 1
          /\ gate.status # 400
          /\ gate.trace[Len(gate.trace)] \in {"handler", "unauthorized"}

C26_Witness ==
    /\ gate.pc = "done"
    /\ gate.eui = "2CF7F1C0443"
    /\ gate.trace[1] = "warn_length"
    /\ gate.ran = "TaskDetailHandler"
    /\ gate.method = "GET"

\* C22: a task-detail request whose query succeeds is answered with status
\* 200 and code 200; data.tl is the empty object when the device has no
\* stored flow, and otherwise the graph of the first flow of the list the
\* query returns newest first.
C22_TaskDetailAnswer ==
    (lastFetch.dev # "none" /\ down # "fetch") =>
        /\ lastFetch.status = 200
        /\ lastFetch.code = 200
        /\ IF RowsOf(lastFetch.dev) = {}
           THEN lastFetch.tl = EmptyTl
           ELSE \E taskFlows \in GetTaskFlowsByDevice(lastFetch.dev) :
                   lastFetch.tl = convertToNodeREDFormat(taskFlows[1])

C22_Witness ==
    /\ lastFetch.dev # "none"
    /\ lastFetch.status = 200
    /\ Cardinality(RowsOf(lastFetch.dev)) = 2
    /\ \E taskFlows \in GetTaskFlowsByDevice(lastFetch.dev) :
          /\ taskFlows[1].created_at > taskFlows[2].created_at
          /\ lastFetch.tl = convertToNodeREDFormat(taskFlows[1])

----------------------------------------------------------------------------
(* cleanLLMResponse applied to its own result                              *)

CleanAlphabet == {"a", " ", "\"", "'", ".", "!"}

CleanTexts == UNION {[1..n -> CleanAlphabet] : n \in 0..MaxLen}

NotCleaned == [applied |-> FALSE, once |-> <<>>, twice |-> <<>>]

InitClean ==
    /\ req = [r \in Reqs |-> IdleReq]
    /\ store = {}
    /\ nextId = 1
    /\ clock = 0
    /\ lastFetch = NoFetch
    /\ down = "none"
    /\ solo = FALSE
    /\ gate = IdleGate
    /\ vis = IdleVis
    /\ ntf = [n \in Ntfs |-> IdleNtf]
    /\ events = <<>>
    /\ arg \in CleanTexts
    /\ res = NotCleaned

ApplyClean ==
    /\ ~res.applied
    /\ res' = [applied |-> TRUE,
               once |-> cleanLLMResponse(arg),
               twice |-> cleanLLMResponse(cleanLLMResponse(arg))]
    /\ UNCHANGED <<req, store, nextId, clock, lastFetch, down, solo, gate,
                   vis, ntf, events, arg>>

NextClean == ApplyClean

SpecClean == InitClean /\ [][NextClean]_vars

\* C23 as claimed: cleanLLMResponse is idempotent, that is, applying it
\* to its own result changes nothing, for every input text.
C23_CleanIdempotent ==
    res.applied => res.twice = res.once

\* the text a". : the quote is not at an end when quotes are stripped, the
\* dot is then stripped, and the quote that is now last stays
C23_Witness ==
    /\ arg = <<"a", "\"", ".">>
    /\ res.applied
    /\ res.once = <<"a", "\"">>
    /\ res.twice = <<"a">>

----------------------------------------------------------------------------
(* The reified graph                                                       *)

\* the node ids a node's wires point to
WireTargets(node) ==
    UNION {{node.wires[i][k] : k \in 1..Len(node.wires[i])} :
              i \in 1..Len(node.wires)}

NodeIds(graph) == {graph[i].id : i \in 1..Len(graph)}

NodeWithId(graph, id) == graph[CHOOSE i \in 1..Len(graph) : graph[i].id = id]

\* the ids reached from id along at most n wires (at least one)
RECURSIVE ReachedWithin(_, _, _)
ReachedWithin(graph, ids, n) ==
    IF n = 0 THEN {}
    ELSE LET step == UNION {WireTargets(NodeWithId(graph, id)) :
                               id \in ids \cap NodeIds(graph)}
         IN  step \cup ReachedWithin(graph, step, n - 1)

Acyclic(graph) ==
    \A id \in NodeIds(graph) : id \notin ReachedWithin(graph, {id}, Len(graph))

\* C24: the graph of every stored flow has exactly the four nodes 1 (ai
\* camera, wired to 2), 2 (image analyzer, wired to 3 and 4), 3 (local
\* alarm, no wire), 4 (sensecraft alarm, no wire) in this order, in a
\* wrapper with type 0, the flow's id, its creation instant in
\* milliseconds and its headline; node 1 carries the stored model kind and
\* the first target object, node 2 the stored trigger; every wire points
\* to a node of the graph and no node reaches itself.
C24_ReifiedGraph ==
    \A f \in store :
        LET tl == convertToNodeREDFormat(f)
            graph == tl.task_flow
        IN  /\ tl.type = 0 /\ tl.tlid = f.id /\ tl.tn = f.headline
            /\ tl.ctd = f.created_at
            /\ Len(graph) = 4
            /\ \A i \in 1..4 : graph[i].id = i
            /\ graph[1].type = "ai camera"
            /\ graph[2].type = "image analyzer"
            /\ graph[3].type = "local alarm"
            /\ graph[4].type = "sensecraft alarm"
            /\ WireTargets(graph[1]) = {2} /\ Len(graph[1].wires) = 1
            /\ WireTargets(graph[2]) = {3, 4} /\ Len(graph[2].wires) = 1
            /\ graph[3].wires = <<>>
            /\ graph[4].wires = <<>>
            /\ graph[1].params.model_type = f.model_type
            /\ Len(graph[1].params.conditions) = 1
            /\ graph[1].params.conditions[1].class = f.target_objects[1]
            /\ graph[2].params.body.prompt = f.trigger_condition
            /\ \A i \in 1..4 : WireTargets(graph[i]) \subseteq NodeIds(graph)
            /\ Acyclic(graph)

\* a flow compiled by a voice request is stored and its graph was fetched
C24_Witness ==
    \E r \in Reqs : \E f \in store :
        /\ req[r].pc = "done" /\ f.id = req[r].id
        /\ f.model_type = 2
        /\ f.target_objects = << <<"c", "a", "t">> >>
        /\ lastFetch.status = 200
        /\ lastFetch.tl = convertToNodeREDFormat(f)

----------------------------------------------------------------------------
(* Upstream calls of one voice request                                     *)

\* the number of events of the trace of r that are in evs; every upstream
\* call leaves one event, whether it succeeds or fails
Calls(r, evs) ==
    Cardinality({i \in 1..Len(req[r].trace) : req[r].trace[i] \in evs})

SttCalls(r) == Calls(r, {"stt", "stt_err"})

ClassifierCalls(r) == Calls(r, {"mode"})

ChatCalls(r) == Calls(r, {"chat", "chat_err"})

TaskCalls(r) == Calls(r, LlmEvents \ {"mode", "chat", "chat_err"})

TtsCalls(r) == Calls(r, TtsEvents)

\* C25 as claimed: a voice request that is answered issued one STT call,
\* one TTS call, and in between at most four calls to the LLM in task
\* mode and one in chat mode.
C25_LlmCallsAsClaimed ==
    \A r \in Reqs :
        req[r].status = 200 =>
            /\ SttCalls(r) = 1
            /\ TtsCalls(r) = 1
            /\ ClassifierCalls(r) + ChatCalls(r) + TaskCalls(r)
                  <= (IF req[r].mode = 0 THEN 1 ELSE 4)

\* C25 amended: a voice request issues at most one STT call, then at most
\* one call to the LLM that classifies the mode, then at most one chat
\* call in chat mode or at most four calls (trigger, object, model kind,
\* headline) in task mode, then at most one TTS call, each only after the
\* one before it; a request answered 200 issued exactly one STT call, two
\* LLM calls in chat mode or five in task mode, and one TTS call.
C25_CallCounts ==
    \A r \in Reqs :
        /\ SttCalls(r) <= 1 /\ ClassifierCalls(r) <= 1 /\ TtsCalls(r) <= 1
        /\ ClassifierCalls(r) = 1 => Has(r, "stt")
        /\ ChatCalls(r) + TaskCalls(r) > 0 => ClassifierCalls(r) = 1
        /\ ChatCalls(r) > 0 => (req[r].mode = 0 /\ TaskCalls(r) = 0)
        /\ TaskCalls(r) > 0 => (req[r].mode # 0 /\ ChatCalls(r) = 0)
        /\ ChatCalls(r) <= 1 /\ TaskCalls(r) <= 4
        /\ TtsCalls(r) = 1 => (Has(r, "chat") \/ TaskCalls(r) = 4)
        /\ req[r].status = 200 =>
              /\ SttCalls(r) = 1 /\ TtsCalls(r) = 1
              /\ ClassifierCalls(r) + ChatCalls(r) + TaskCalls(r)
                    = (IF req[r].mode = 0 THEN 2 ELSE 5)

C25_Witness ==
    \E r1, r2 \in Reqs :
        /\ req[r1].status = 200 /\ req[r1].mode # 0
        /\ ClassifierCalls(r1) = 1 /\ TaskCalls(r1) = 4
        /\ req[r2].status = 200 /\ req[r2].mode = 0
        /\ ClassifierCalls(r2) = 1 /\ ChatCalls(r2) = 1

----------------------------------------------------------------------------
(* What a failed or half-done compilation leaves in the table              *)

\* every other request that used the table for the device of r had
\* returned before r began
Unrivalled(r) ==
    \A q \in Reqs \ {r} :
        (req[q].dev = req[r].dev /\ TouchedStore(q)) => Before(q, r)

\* C27: when the TTS call of a task-mode request fails after its flow was
\* inserted, the request ends with status 500 and nothing is rolled back:
\* (no other request for the device interfering) the device's flows are
\* exactly the new flow, the prior ones stay deleted, and a task-detail
\* fetch for the device returns the graph of the new flow.
C27_NoRollbackAfterTtsFailure ==
    \A r \in Reqs :
        (Has(r, "tts_err") /\ Has(r, "insert")) =>
            /\ req[r].pc = "done"
            /\ req[r].status = 500
            /\ Unrivalled(r) =>
                  /\ \E f \in store :
                        /\ f.id = req[r].id
                        /\ f.device_eui = req[r].dev
                        /\ f.headline = req[r].headline
                        /\ RowsOf(req[r].dev) = {f}
                        /\ (lastFetch.status = 200
                              /\ lastFetch.dev = req[r].dev) =>
                                lastFetch.tl = convertToNodeREDFormat(f)

C27_Witness ==
    \E r \in Reqs :
        /\ Has(r, "tts_err") /\ Has(r, "insert") /\ Has(r, "delete")
        /\ Unrivalled(r)
        /\ req[r].status = 500
        /\ lastFetch.status = 200
        /\ lastFetch.dev = req[r].dev
        /\ lastFetch.tl # EmptyTl
        /\ lastFetch.tl.tlid = req[r].id

\* C28: when the deletes of the prior flows succeeded and the insert of
\* the new flow failed, (no other request for the device interfering) the
\* device has no flow left, the reply is still the confirmation sentence,
\* and a task-detail fetch for the device returns the empty object.
C28_FailedInsertLeavesNoFlow ==
    \A r \in Reqs :
        (/\ Has(r, "insert_err")
         /\ ~HasAny(r, {"read_err", "delete_err", "delete_notfound"})
         /\ Unrivalled(r)) =>
            /\ RowsOf(req[r].dev) = {}
            /\ req[r].ollamaResponse =
                  Confirmation(req[r].headline, req[r].trigger)
            /\ req[r].status \in {0, 200}
            /\ req[r].status = 200 =>
                  req[r].written.json.screen_text = req[r].ollamaResponse
            /\ (lastFetch.status = 200 /\ lastFetch.dev = req[r].dev) =>
                  lastFetch.tl = EmptyTl

C28_Witness ==
    \E r \in Reqs :
        /\ Has(r, "insert_err") /\ Has(r, "delete")
        /\ ~HasAny(r, {"read_err", "delete_err", "delete_notfound"})
        /\ Unrivalled(r)
        /\ req[r].status = 200
        /\ lastFetch.status = 200
        /\ lastFetch.dev = req[r].dev
        /\ lastFetch.tl = EmptyTl

----------------------------------------------------------------------------
(* The lists of a compiled flow                                            *)

\* C29: every flow a voice request wrote has, as the query returns it, a
\* target-object list of exactly one element and the action list
\* [notify], so the read of the first target object during reification
\* never meets an empty list.
C29_OneTargetObject ==
    \A r \in Reqs :
        /\ req[r].pc = "insert" =>
              /\ Len(TaskFlowOf(r).TargetObjects) = 1
              /\ TaskFlowOf(r).Actions = << <<"n", "o", "t", "i", "f", "y">> >>
        /\ \A f \in FlowsOf(r) :
              /\ Len(f.target_objects) = 1
              /\ f.target_objects[1] = req[r].targetObject
              /\ f.actions = << <<"n", "o", "t", "i", "f", "y">> >>
              /\ aiCameraNode(f).params.conditions[1].class
                    = req[r].targetObject

\* a target with a quote and a backslash in it, stored and fetched
C29_Witness ==
    \E r \in Reqs : \E f \in FlowsOf(r) :
        /\ req[r].targetObject = <<"a", "\"", "\\">>
        /\ lastFetch.status = 200
        /\ lastFetch.tl = convertToNodeREDFormat(f)

----------------------------------------------------------------------------
(* All four endpoints served together                                      *)

\* One voice request, one vision request and the notification requests run
\* against the same process and database, interleaved in any order, with
\* task-detail fetches in between.
VisionRequestOfServer ==
    [IdleVis EXCEPT !.body = "json", !.img = "/9j/",
                    !.audioTxt = <<"h", "i">>, !.type = 1]

NotificationRequestOfServer(n) ==
    [IdleNtf EXCEPT !.body = "json", !.dev = "d1",
                    !.text = << <<"d", "o", "g">> >>,
                    !.timestamp = <<1700>>, !.requestId = n]

InitServer ==
    /\ req = [r \in Reqs |-> IdleReq]
    /\ store \in InitialStores
    /\ nextId = Cardinality(store) + 1
    /\ clock = 0
    /\ lastFetch = NoFetch
    /\ down = "none"
    /\ solo = TRUE
    /\ gate = IdleGate
    /\ vis = VisionRequestOfServer
    /\ ntf = [n \in Ntfs |-> NotificationRequestOfServer(n)]
    /\ events = <<>>
    /\ arg = <<>>
    /\ res = 0

NextServer ==
    \/ Next
    \/ NextVision
    \/ NextNotify

SpecServer == InitServer /\ [][NextServer]_vars

\* the rows a step adds or removes
ChangedRows == (store \ store') \cup (store' \ store)

\* what a step may do to the task flows: change them only as a step of a
\* task-mode voice request, and then only flows of that request's device
WritesFlowsOnlyInTaskMode ==
    /\ store' # store =>
          /\ \E r \in Reqs :
                /\ req'[r] # req[r]
                /\ req[r].mode # 0
                /\ req[r].pc \in {"delete", "insert"}
                /\ \A f \in ChangedRows : f.device_eui = req[r].dev
          /\ \A d \in Devices :
                (\A r \in Reqs : req'[r] # req[r] => req[r].dev # d) =>
                    {f \in store' : f.device_eui = d} = RowsOf(d)
    /\ (\E r \in Reqs : req'[r] # req[r] /\ req'[r].mode = 0) =>
          store' = store
    /\ lastFetch' # lastFetch => store' = store
    /\ vis' # vis => store' = store
    /\ (ntf' # ntf \/ events' # events) => store' = store

\* C30: a step changes the stored task flows only when it is a step of a
\* task-mode voice request, and then only flows of that request's device;
\* steps of a chat-mode voice request, of a task-detail fetch, of the
\* vision request and of a notification request leave the task flows as
\* they are.
C30_OnlyTaskModeWritesFlows == [][WritesFlowsOnlyInTaskMode]_vars

\* all four kinds of request have run; the voice request compiled a task
\* for its device while another device had a flow
C30_Witness ==
    \E r \in Reqs :
        /\ Has(r, "insert") /\ Finished(r)
        /\ FlowsOf(r) # {}
        /\ OldRow("d2") \in store
        /\ req[r].dev = "d1"
        /\ vis.status = 200
        /\ \A n \in Ntfs : ntf[n].status = 200
        /\ Len(events) = MaxNtfs
        /\ lastFetch.status = 200

====
